---- MODULE Spec2Model ----
(***************************************************************************)
(* A model of the mpeg2ts demultiplexer: PesPacketDecoder                  *)
(* (src/src/pes/decoder.rs), PesPacketReader (src/src/pes/reader.rs) and   *)
(* TsPacketReader (src/src/ts/reader.rs).                                  *)
(*                                                                         *)
(* Option<T> is a sequence of length 0 (None) or 1 (Some).  Result<T> is a *)
(* record [ok, v]: v is the value of an Ok and the ErrorKind of an Err.    *)
(* A HashMap is a function whose domain is the set of its keys.            *)
(***************************************************************************)
EXTENDS Integers, Sequences, FiniteSets, TLC

\* ------------------------------------------------------------------ bounds

\* TS packets the packet source of a decoder or a PES reader hands out.
MaxTs == 3
\* The back-buffer is not grown past this many packets.
MaxBackBuffer == 3

\* Windows in a stored byte stream at most.
MaxWindows == 3

\* Failures of the byte source in one call at most.
MaxIoErrors == 1

\* ------------------------------------------------------------- data model

None == <<>>

Some(x) == <<x>>

Ok(x) == [ok |-> TRUE, v |-> x]

Err(kind) == [ok |-> FALSE, v |-> kind]

IsSome(r) == r.ok /\ r.v # None

\* The PIDs on which elementary streams are carried.
Pids == {256, 257}

\* <<pes_packet_len, optional_header_len()>> of the Pes payloads: unbounded,
\* a body of 3 bytes, a length shorter than the optional header, and a body of
\* 1 byte behind an optional header of 3 bytes.
DeclaredLens == {<<0, 0>>, <<3, 0>>, <<2, 3>>, <<4, 3>>}

\* The numbers of data bytes one TS payload carries.
DataLens == {1, 2}

\* The n-th TS packet's payload bytes: d bytes, each tagged n.
PayloadBytes(n, d) == [i \in 1..d |-> n]

NoHeader == [id |-> 0, optional_header_len |-> 0, declared |-> 0]

\* The TS packets the n-th read of the packet source may return.  A Pes payload
\* carries a PES header, the declared length and the first fragment; a Raw
\* payload carries bytes; the other payloads (Pat, Pmt, Null, no payload) carry
\* nothing the PES layer reads.  A PES header is told apart by its id, and its
\* field `declared` remembers the pes_packet_len it came with: the code reads
\* neither.
PesTsPackets(n) ==
    { [pid |-> p, payload |-> "Pes", pes_packet_len |-> l[1],
       header |-> [id |-> n, optional_header_len |-> l[2], declared |-> l[1]],
       data |-> PayloadBytes(n, d)] :
        p \in Pids, l \in DeclaredLens, d \in DataLens }

RawTsPackets(n) ==
    { [pid |-> p, payload |-> "Raw", pes_packet_len |-> 0, header |-> NoHeader,
       data |-> PayloadBytes(n, d)] : p \in Pids, d \in DataLens }

OtherTsPackets(n) ==
    { [pid |-> p, payload |-> k, pes_packet_len |-> 0, header |-> NoHeader,
       data |-> <<>>] : p \in {256}, k \in {"Pat", "Pmt", "Null", "NoPayload"} }

TsPackets(n) == PesTsPackets(n) \cup RawTsPackets(n) \cup OtherTsPackets(n)

\* The TS packets the packet source of a PesPacketReader hands out: payloads of
\* one byte; on the first PID Pes payloads (unbounded, of 3 bytes, of a length
\* shorter than the optional header), Raw and Null payloads, on the second
\* unbounded Pes payloads.
ReaderTsPackets(n) ==
    { ts \in TsPackets(n) :
        /\ Len(ts.data) <= 1
        /\ ts.payload \in {"Pes", "Raw", "Null"}
        /\ ts.pes_packet_len # 4
        /\ ts.pid = 256 \/ (ts.payload = "Pes" /\ ts.pes_packet_len = 0) }

\* TS_IGNORE_HEADER_LENGTH as the process may have it set.
EnvValues == {"unset", "TRUE", "false"}

Objects == {"decoder", "reader"}

to_lowercase(s) == IF s = "TRUE" THEN "true" ELSE s

\* The flag without to_lowercase(): only the exact value "true" sets it.
ignore_header_length_exact(env) ==
    (IF env = "unset" THEN "false" ELSE env) = "true"

\* env::var(..).unwrap_or("false").to_lowercase() == "true"
ignore_header_length(env) ==
    to_lowercase(IF env = "unset" THEN "false" ELSE env) = "true"

MapRemove(m, k) == [q \in DOMAIN m \ {k} |-> m[q]]

MapInsert(m, k, x) == [q \in DOMAIN m \cup {k} |-> IF q = k THEN x ELSE m[q]]

EmptyMap == [q \in {} |-> 0]

\* --------------------------------------------------------------- variables

VARIABLES
    obj,              \* which object this run drives: "decoder" or "reader"
    env,              \* TS_IGNORE_HEADER_LENGTH at construction
    ts_n,             \* TS packets handed out so far by the packet source
    op,               \* the last call that returned
    arg,              \* the TS packet the last step was given (None if none)
    res,              \* what it returned
    dec_pes_packets,  \* PesPacketDecoder.pes_packets
    dec_ignore,       \* PesPacketDecoder.ignore_packet_header_length
    dec_eos,          \* PesPacketDecoder.eos
    peeked_packet,    \* PesPacketReader.peeked_packet
    pes_packets,      \* PesPacketReader.pes_packets
    eos,              \* PesPacketReader.eos
    is_marked,        \* PesPacketReader.is_marked
    back_buffer,      \* PesPacketReader.back_buffer
    ignore_packet_header_length,  \* PesPacketReader.ignore_packet_header_length
    pc,               \* "idle", or the call whose read_next_pes_packet loop runs
    emitted,          \* history: the packet the last step took out of the map
    how,              \* history: by "evict", "raw" or "eos" ("" if it took none)
    source,           \* history: where the last read got its packet from
    since_mark,       \* history: the packets read since the last mark()
    pending,          \* history: the packets a reset() has promised to replay
    expected,         \* history: what the last read had to return, if promised
    pulled_early,     \* history: the last step read the packet source, a replay pending
    cycle,            \* history: "marked"/"replay" in a cycle begun with empty slots
    held_at_mark,     \* history: the back-buffer as the mark() in force found it
    stream,           \* the windows of the byte source of TsPacketReader
    pos,              \* the bytes TsPacketReader.stream has given out
    pids,             \* TsPacketReader.pids
    ts_peeked_packet, \* TsPacketReader.peeked_packet
    sync_reads,       \* the bytes a failed sync check consumes in this build
    ts_op,            \* the last call of TsPacketReader that returned
    ts_res,           \* what it returned
    ts_out,           \* history: headers of the packets read_ts_packet returned
    ts_reads,         \* history: the calls of read_ts_packet so far
    ts_peek_hit,      \* history: a read_ts_packet was served from the peek slot
    io_in_call,       \* history: the byte source failed during the last call
    announced,        \* history: the PIDs the PATs and PMTs handed out have listed
    source_broken,    \* every read() of the byte source returns Err
    ts_pc,            \* the call inside get_next_available_packet's loop, or "idle"
    ts_tries          \* history: parity of the loop's failed attempts

dec_vars == <<dec_pes_packets, dec_ignore, dec_eos>>

rdr_vars == <<peeked_packet, pes_packets, eos, is_marked, back_buffer,
              ignore_packet_header_length, pc>>

replay_vars == <<source, since_mark, pending, expected, pulled_early, cycle,
                 held_at_mark>>

pes_all == <<obj, env, ts_n, op, arg, res, dec_vars, rdr_vars, emitted, how,
             replay_vars>>

ts_vars == <<stream, pos, pids, ts_peeked_packet, sync_reads, ts_op, ts_res,
             ts_out, ts_reads, ts_peek_hit, io_in_call, announced,
             source_broken, ts_pc, ts_tries>>

vars == <<pes_all, ts_vars>>

\* What every iteration of get_next_available_packet's loop changes.
loop_vars == <<ts_pc, ts_tries>>

\* ------------------------------------------------------- PesPacketDecoder

\* handle_eos with the completeness test made before the partial is removed:
\* a partial that fails it stays in the map.
Dec_handle_eos_keeps_failed(map, key) ==
    IF key \in DOMAIN map
    THEN LET partial == map[key] IN
         IF partial.data_len = None
            \/ partial.data_len = Some(Len(partial.packet.data))
         THEN [ret |-> Ok(Some(partial.packet)), map |-> MapRemove(map, key)]
         ELSE [ret |-> Err("InvalidInput"), map |-> map]
    ELSE [ret |-> Ok(None), map |-> map]

\* handle_eos, for the key the map's iterator yields first.
Dec_handle_eos(map, key) ==
    IF key \in DOMAIN map
    THEN LET partial == map[key] IN
         [ret |-> IF partial.data_len = None
                     \/ partial.data_len = Some(Len(partial.packet.data))
                  THEN Ok(Some(partial.packet))
                  ELSE Err("InvalidInput"),
          map |-> MapRemove(map, key)]
    ELSE [ret |-> Ok(None), map |-> map]

\* data_len without the track_assert!: the difference is computed whatever
\* the two lengths, wrapping as 16-bit unsigned arithmetic does.
Dec_data_len_unchecked(ignore, pes) ==
    IF ignore \/ pes.pes_packet_len = 0
    THEN Ok(None)
    ELSE Ok(Some((pes.pes_packet_len - pes.header.optional_header_len)
                   % 65536))

Dec_data_len(ignore, pes) ==
    IF ignore \/ pes.pes_packet_len = 0
    THEN Ok(None)
    ELSE IF pes.pes_packet_len >= pes.header.optional_header_len
         THEN Ok(Some(pes.pes_packet_len - pes.header.optional_header_len))
         ELSE Err("InvalidInput")

\* handle_pes_payload with the completeness check on the evicted packet (the
\* one reader.rs carries commented out): an incomplete prior packet is dropped.
Dec_handle_pes_payload_checked(map, ignore, pid, pes) ==
    LET data_len == Dec_data_len(ignore, pes) IN
    IF ~data_len.ok
    THEN [ret |-> Err("InvalidInput"), map |-> map]
    ELSE LET partial == [packet |-> [header |-> pes.header, data |-> pes.data],
                         data_len |-> data_len.v]
         IN [ret |-> IF pid \in DOMAIN map
                        /\ (\/ map[pid].data_len = None
                            \/ map[pid].data_len
                                 = Some(Len(map[pid].packet.data)))
                     THEN Ok(Some(map[pid].packet))
                     ELSE Ok(None),
             map |-> MapInsert(map, pid, partial)]

Dec_handle_pes_payload(map, ignore, pid, pes) ==
    LET data_len == Dec_data_len(ignore, pes) IN
    IF ~data_len.ok
    THEN [ret |-> Err("InvalidInput"), map |-> map]
    ELSE LET partial == [packet |-> [header |-> pes.header, data |-> pes.data],
                         data_len |-> data_len.v]
         IN [ret |-> IF pid \in DOMAIN map THEN Ok(Some(map[pid].packet))
                     ELSE Ok(None),
             map |-> MapInsert(map, pid, partial)]

\* handle_raw_payload without its test for the declared length: the bytes are
\* appended and the partial waits for the next Pes payload or the end.
Dec_handle_raw_payload_waits(map, pid, data) ==
    IF pid \notin DOMAIN map
    THEN [ret |-> Ok(None), map |-> map]
    ELSE LET partial == [map[pid] EXCEPT !.packet.data = @ \o data] IN
         [ret |-> Ok(None), map |-> MapInsert(map, pid, partial)]

\* handle_raw_payload appending in place (get_mut for remove): a completed
\* packet is returned and stays in the map.
Dec_handle_raw_payload_in_place(map, pid, data) ==
    IF pid \notin DOMAIN map
    THEN [ret |-> Ok(None), map |-> map]
    ELSE LET partial == [map[pid] EXCEPT !.packet.data = @ \o data] IN
         IF Some(Len(partial.packet.data)) = partial.data_len
         THEN [ret |-> Ok(Some(partial.packet)),
               map |-> MapInsert(map, pid, partial)]
         ELSE IF partial.data_len # None
                 /\ Len(partial.packet.data) > partial.data_len[1]
              THEN [ret |-> Ok(None), map |-> MapRemove(map, pid)]
              ELSE [ret |-> Ok(None), map |-> MapInsert(map, pid, partial)]

\* handle_raw_payload with >= for ==: a packet grown past its declared length
\* is emitted instead of dropped.
Dec_handle_raw_payload_overrun(map, pid, data) ==
    IF pid \notin DOMAIN map
    THEN [ret |-> Ok(None), map |-> map]
    ELSE LET partial == [map[pid] EXCEPT !.packet.data = @ \o data] IN
         IF partial.data_len # None
            /\ Len(partial.packet.data) >= partial.data_len[1]
         THEN [ret |-> Ok(Some(partial.packet)), map |-> MapRemove(map, pid)]
         ELSE [ret |-> Ok(None), map |-> MapInsert(map, pid, partial)]

Dec_handle_raw_payload(map, pid, data) ==
    IF pid \notin DOMAIN map
    THEN [ret |-> Ok(None), map |-> map]
    ELSE LET partial == [map[pid] EXCEPT !.packet.data = @ \o data] IN
         IF Some(Len(partial.packet.data)) = partial.data_len
         THEN [ret |-> Ok(Some(partial.packet)), map |-> MapRemove(map, pid)]
         ELSE IF partial.data_len # None
                 /\ Len(partial.packet.data) > partial.data_len[1]
              THEN [ret |-> Ok(None), map |-> MapRemove(map, pid)]
              ELSE [ret |-> Ok(None), map |-> MapInsert(map, pid, partial)]

\* The match of process_ts_packet with its last arm ending the PID's partial:
\* a packet that carries neither Pes nor Raw takes the partial out of the map.
Dec_dispatch_other_ends(map, ignore, ts) ==
    CASE ts.payload = "Pes" -> Dec_handle_pes_payload(map, ignore, ts.pid, ts)
      [] ts.payload = "Raw" -> Dec_handle_raw_payload(map, ts.pid, ts.data)
      [] OTHER -> [ret |-> Ok(None), map |-> MapRemove(map, ts.pid)]

\* The match on ts_packet.payload in process_ts_packet.
Dec_dispatch(map, ignore, ts) ==
    CASE ts.payload = "Pes" -> Dec_handle_pes_payload(map, ignore, ts.pid, ts)
      [] ts.payload = "Raw" -> Dec_handle_raw_payload(map, ts.pid, ts.data)
      [] OTHER -> [ret |-> Ok(None), map |-> map]

\* The histories `emitted` and `how` after a step whose handler returned ret.
NoteEmitted(ret, by) ==
    /\ emitted' = IF IsSome(ret) THEN ret.v ELSE None
    /\ how' = IF IsSome(ret) THEN by ELSE ""

HowEmitted(ts) == IF ts.payload = "Pes" THEN "evict" ELSE "raw"

\* The keys handle_eos may find first in the map (0 stands for "no key").
FirstKeys(map) == IF DOMAIN map = {} THEN {0} ELSE DOMAIN map

\* process_ts_packet without its `if self.eos` test: a flushed decoder goes
\* on dispatching on the payload.
ProcessTsPacket_without_eos_test ==
    /\ obj = "decoder"
    /\ ts_n < MaxTs
    /\ \E ts \in TsPackets(ts_n + 1) :
         LET r == Dec_dispatch(dec_pes_packets, dec_ignore, ts)
         IN /\ dec_pes_packets' = r.map
            /\ res' = r.ret
            /\ arg' = Some(ts)
            /\ NoteEmitted(r.ret, HowEmitted(ts))
    /\ ts_n' = ts_n + 1
    /\ op' = "process_ts_packet"
    /\ UNCHANGED <<ts_vars, obj, env, dec_ignore, dec_eos, rdr_vars, replay_vars>>

\* PesPacketDecoder::process_ts_packet
ProcessTsPacket ==
    /\ obj = "decoder"
    /\ ts_n < MaxTs
    /\ \E ts \in TsPackets(ts_n + 1), key \in FirstKeys(dec_pes_packets) :
         LET r == IF dec_eos THEN Dec_handle_eos(dec_pes_packets, key)
                  ELSE Dec_dispatch(dec_pes_packets, dec_ignore, ts)
         IN /\ dec_pes_packets' = r.map
            /\ res' = r.ret
            /\ arg' = Some(ts)
            /\ NoteEmitted(r.ret, IF dec_eos THEN "eos" ELSE HowEmitted(ts))
    /\ ts_n' = ts_n + 1
    /\ op' = "process_ts_packet"
    /\ UNCHANGED <<ts_vars, obj, env, dec_ignore, dec_eos, rdr_vars, replay_vars>>

\* PesPacketDecoder::flush
Flush ==
    /\ obj = "decoder"
    /\ \E key \in FirstKeys(dec_pes_packets) :
         LET r == Dec_handle_eos(dec_pes_packets, key)
         IN /\ dec_pes_packets' = r.map
            /\ res' = r.ret
            /\ NoteEmitted(r.ret, "eos")
    /\ dec_eos' = TRUE
    /\ op' = "flush"
    /\ arg' = None
    /\ UNCHANGED <<ts_vars, obj, env, ts_n, dec_ignore, rdr_vars, replay_vars>>

\* -------------------------------------------------------- PesPacketReader

\* handle_eos returning the partial without removing it from the map.
Rdr_handle_eos_keeps(map, key) ==
    IF key \in DOMAIN map
    THEN LET partial == map[key] IN
         [ret |-> IF partial.data_len = None
                     \/ partial.data_len = Some(Len(partial.packet.data))
                  THEN Ok(Some(partial.packet))
                  ELSE Err("InvalidInput"),
          map |-> map]
    ELSE [ret |-> Ok(None), map |-> map]

Rdr_handle_eos(map, key) ==
    IF key \in DOMAIN map
    THEN LET partial == map[key] IN
         [ret |-> IF partial.data_len = None
                     \/ partial.data_len = Some(Len(partial.packet.data))
                  THEN Ok(Some(partial.packet))
                  ELSE Err("InvalidInput"),
          map |-> MapRemove(map, key)]
    ELSE [ret |-> Ok(None), map |-> map]

Rdr_data_len(ignore, pes) ==
    IF ignore \/ pes.pes_packet_len = 0
    THEN Ok(None)
    ELSE IF pes.pes_packet_len >= pes.header.optional_header_len
         THEN Ok(Some(pes.pes_packet_len - pes.header.optional_header_len))
         ELSE Err("InvalidInput")

\* handle_pes_payload with the test of its commented-out lines 106-115: the
\* evicted packet is returned only if unbounded or of its declared length.
Rdr_handle_pes_payload_checked(map, ignore, pid, pes) ==
    LET data_len == Rdr_data_len(ignore, pes) IN
    IF ~data_len.ok
    THEN [ret |-> Err("InvalidInput"), map |-> map]
    ELSE LET partial == [packet |-> [header |-> pes.header, data |-> pes.data],
                         data_len |-> data_len.v]
         IN [ret |-> IF pid \in DOMAIN map
                        /\ (\/ map[pid].data_len = None
                            \/ map[pid].data_len
                                 = Some(Len(map[pid].packet.data)))
                     THEN Ok(Some(map[pid].packet))
                     ELSE Ok(None),
             map |-> MapInsert(map, pid, partial)]

Rdr_handle_pes_payload(map, ignore, pid, pes) ==
    LET data_len == Rdr_data_len(ignore, pes) IN
    IF ~data_len.ok
    THEN [ret |-> Err("InvalidInput"), map |-> map]
    ELSE LET partial == [packet |-> [header |-> pes.header, data |-> pes.data],
                         data_len |-> data_len.v]
         IN [ret |-> IF pid \in DOMAIN map THEN Ok(Some(map[pid].packet))
                     ELSE Ok(None),
             map |-> MapInsert(map, pid, partial)]

Rdr_handle_raw_payload(map, pid, data) ==
    IF pid \notin DOMAIN map
    THEN [ret |-> Ok(None), map |-> map]
    ELSE LET partial == [map[pid] EXCEPT !.packet.data = @ \o data] IN
         IF Some(Len(partial.packet.data)) = partial.data_len
         THEN [ret |-> Ok(Some(partial.packet)), map |-> MapRemove(map, pid)]
         ELSE IF partial.data_len # None
                 /\ Len(partial.packet.data) > partial.data_len[1]
              THEN [ret |-> Ok(None), map |-> MapRemove(map, pid)]
              ELSE [ret |-> Ok(None), map |-> MapInsert(map, pid, partial)]

\* The match on ts_packet.payload in read_next_pes_packet's loop.
Rdr_dispatch(map, ignore, ts) ==
    CASE ts.payload = "Pes" -> Rdr_handle_pes_payload(map, ignore, ts.pid, ts)
      [] ts.payload = "Raw" -> Rdr_handle_raw_payload(map, ts.pid, ts.data)
      [] OTHER -> [ret |-> Ok(None), map |-> map]

\* read_pes_packet without `!self.is_marked` in its second branch.
TakeBuffered_while_marked(peeked, buffer, marked) ==
    IF peeked # None
    THEN [taken |-> TRUE, packet |-> peeked, peeked |-> None, buffer |-> buffer]
    ELSE IF buffer # <<>>
         THEN [taken |-> TRUE, packet |-> Some(Head(buffer)), peeked |-> None,
               buffer |-> Tail(buffer)]
         ELSE [taken |-> FALSE, packet |-> None, peeked |-> peeked,
               buffer |-> buffer]

\* read_pes_packet's first two branches: the packet it takes without calling
\* read_next_pes_packet, and the slots after taking it.  `taken` is FALSE when
\* the third branch (read_next_pes_packet) is the one that runs.
TakeBuffered(peeked, buffer, marked) ==
    IF peeked # None
    THEN [taken |-> TRUE, packet |-> peeked, peeked |-> None, buffer |-> buffer]
    ELSE IF buffer # <<>> /\ ~marked
         THEN [taken |-> TRUE, packet |-> Some(Head(buffer)), peeked |-> None,
               buffer |-> Tail(buffer)]
         ELSE [taken |-> FALSE, packet |-> None, peeked |-> peeked,
               buffer |-> buffer]

\* read_pes_packet's last step: a packet read while marked is pushed on the
\* back-buffer.
PushIfMarked(buffer, marked, ret) ==
    IF marked /\ IsSome(ret) THEN Append(buffer, ret.v[1]) ELSE buffer

\* peek_pes_packet's self.read_pes_packet().unwrap_or(None)
unwrap_or_none(ret) == IF ret.ok THEN ret.v ELSE None

\* The histories a returning read_pes_packet (caller "read") or
\* peek_pes_packet (caller "peek") updates; ret is what the inner
\* read_pes_packet got and from where ("peek", "buffer" or "next").
NoteReturn(caller, ret, from) ==
    IF caller = "read"
    THEN /\ source' = from
         /\ since_mark' = IF is_marked /\ IsSome(ret)
                          THEN Append(since_mark, ret.v[1]) ELSE since_mark
         /\ expected' = IF pending # <<>> THEN Some(Head(pending)) ELSE None
         /\ pending' = IF pending # <<>> THEN Tail(pending) ELSE pending
         /\ UNCHANGED <<cycle, held_at_mark>>
    ELSE /\ source' = ""
         /\ expected' = None
         /\ cycle' = "off"
         /\ UNCHANGED <<since_mark, pending, held_at_mark>>

\* The end of a read_pes_packet that `caller` made: the push on the
\* back-buffer, and for peek_pes_packet the filling of the peek slot.
RdrReturn(caller, ret, peeked, buffer, from) ==
    /\ back_buffer' = PushIfMarked(buffer, is_marked, ret)
    /\ peeked_packet' = IF caller = "read" THEN peeked ELSE unwrap_or_none(ret)
    /\ res' = IF caller = "read" THEN ret ELSE unwrap_or_none(ret)
    /\ op' = IF caller = "read" THEN "read_pes_packet" ELSE "peek_pes_packet"
    /\ pc' = "idle"
    /\ NoteReturn(caller, ret, from)

\* The body of read_pes_packet up to the loop of read_next_pes_packet.
RdrCall(caller) ==
    LET t == TakeBuffered(peeked_packet, back_buffer, is_marked) IN
    IF t.taken
    THEN /\ RdrReturn(caller, Ok(t.packet), t.peeked, t.buffer,
                      IF peeked_packet # None THEN "peek" ELSE "buffer")
         /\ NoteEmitted(Ok(None), "")
         /\ pulled_early' = FALSE
         /\ arg' = None
         /\ UNCHANGED <<pes_packets, eos, ts_n>>
    ELSE IF eos
         THEN \E key \in FirstKeys(pes_packets) :
                LET r == Rdr_handle_eos(pes_packets, key) IN
                /\ pes_packets' = r.map
                /\ NoteEmitted(r.ret, "eos")
                /\ RdrReturn(caller, r.ret, peeked_packet, back_buffer, "next")
                /\ pulled_early' = FALSE
                /\ arg' = None
                /\ UNCHANGED <<eos, ts_n>>
         ELSE /\ pc' = caller
              /\ NoteEmitted(Ok(None), "")
              /\ pulled_early' = FALSE
              /\ arg' = None
              /\ UNCHANGED <<op, res, peeked_packet, pes_packets, eos,
                             back_buffer, ts_n, source, since_mark, pending,
                             expected, cycle, held_at_mark>>

\* A call that may push is not made on a full back-buffer.
RoomToPush == Len(back_buffer) < MaxBackBuffer

\* ReadPesPacket::read_pes_packet, up to the first read of the packet source
ReadPesPacket ==
    /\ obj = "reader"
    /\ pc = "idle"
    /\ is_marked => RoomToPush
    /\ RdrCall("read")
    /\ UNCHANGED <<ts_vars, obj, env, dec_vars, is_marked, ignore_packet_header_length>>

\* ReadPesPacket::peek_pes_packet, up to the first read of the packet source
PeekPesPacket ==
    /\ obj = "reader"
    /\ pc = "idle"
    /\ is_marked => RoomToPush
    /\ IF peeked_packet # None
       THEN /\ res' = peeked_packet
            /\ op' = "peek_pes_packet"
            /\ source' = ""
            /\ expected' = None
            /\ cycle' = "off"
            /\ NoteEmitted(Ok(None), "")
            /\ UNCHANGED <<peeked_packet, pes_packets, eos, back_buffer, pc, ts_n,
                           since_mark, pending, held_at_mark>>
            /\ pulled_early' = FALSE
            /\ arg' = None
       ELSE RdrCall("peek")
    /\ UNCHANGED <<ts_vars, obj, env, dec_vars, is_marked, ignore_packet_header_length>>

\* One turn of read_next_pes_packet's loop: the packet source returns a packet.
PullTsPacket ==
    /\ obj = "reader"
    /\ pc # "idle"
    /\ ts_n < MaxTs
    /\ \E ts \in ReaderTsPackets(ts_n + 1) :
         LET r == Rdr_dispatch(pes_packets, ignore_packet_header_length, ts) IN
         /\ pes_packets' = r.map
         /\ arg' = Some(ts)
         /\ NoteEmitted(r.ret, HowEmitted(ts))
         /\ IF ~r.ret.ok \/ IsSome(r.ret)
            THEN RdrReturn(pc, r.ret, peeked_packet, back_buffer, "next")
            ELSE UNCHANGED <<op, res, peeked_packet, back_buffer, pc, source,
                             since_mark, pending, expected, cycle,
                             held_at_mark>>
    /\ ts_n' = ts_n + 1
    /\ pulled_early' = (pending # <<>>)
    /\ UNCHANGED <<ts_vars, obj, env, dec_vars, eos, is_marked,
                   ignore_packet_header_length>>

\* The loop's end: the packet source is at its end.
PullEndOfStream ==
    /\ obj = "reader"
    /\ pc # "idle"
    /\ eos' = TRUE
    /\ arg' = None
    /\ \E key \in FirstKeys(pes_packets) :
         LET r == Rdr_handle_eos(pes_packets, key) IN
         /\ pes_packets' = r.map
         /\ NoteEmitted(r.ret, "eos")
         /\ RdrReturn(pc, r.ret, peeked_packet, back_buffer, "next")
    /\ pulled_early' = (pending # <<>>)
    /\ UNCHANGED <<ts_vars, obj, env, dec_vars, is_marked, ignore_packet_header_length,
                   ts_n>>

\* The loop left by `?`: the packet source returns an error.
PullError ==
    /\ obj = "reader"
    /\ pc # "idle"
    /\ RdrReturn(pc, Err("Io"), peeked_packet, back_buffer, "next")
    /\ arg' = None
    /\ NoteEmitted(Ok(None), "")
    /\ pulled_early' = (pending # <<>>)
    /\ UNCHANGED <<ts_vars, obj, env, dec_vars, pes_packets, eos, is_marked,
                   ignore_packet_header_length, ts_n>>

\* mark without its `if self.is_marked` test.
mark_unchecked(marked, peeked, buffer) ==
    [ret |-> Ok("unit"), is_marked |-> TRUE,
     back_buffer |-> IF peeked # None THEN Append(buffer, peeked[1])
                     ELSE buffer]

\* ReadPesPacket::mark as a function of the fields it reads
mark(marked, peeked, buffer) ==
    IF marked
    THEN [ret |-> Err("Other"), is_marked |-> marked, back_buffer |-> buffer]
    ELSE [ret |-> Ok("unit"), is_marked |-> TRUE,
          back_buffer |-> IF peeked # None THEN Append(buffer, peeked[1])
                          ELSE buffer]

\* ReadPesPacket::reset as a function of the fields it reads
reset(marked, peeked) ==
    IF ~marked
    THEN [ret |-> Err("Other"), is_marked |-> marked, peeked_packet |-> peeked]
    ELSE [ret |-> Ok("unit"), is_marked |-> FALSE, peeked_packet |-> None]

\* ReadPesPacket::mark
Mark ==
    /\ obj = "reader"
    /\ pc = "idle"
    /\ peeked_packet # None => RoomToPush
    /\ LET m == mark(is_marked, peeked_packet, back_buffer) IN
       /\ res' = m.ret
       /\ is_marked' = m.is_marked
       /\ back_buffer' = m.back_buffer
       /\ IF m.ret.ok
          THEN /\ cycle' = IF peeked_packet = None /\ back_buffer = <<>>
                           THEN "marked" ELSE "off"
               /\ since_mark' = <<>>
               /\ pending' = <<>>
               /\ held_at_mark' = back_buffer
          ELSE /\ cycle' = "off"
               /\ UNCHANGED <<since_mark, pending, held_at_mark>>
    /\ source' = ""
    /\ expected' = None
    /\ op' = "mark"
    /\ arg' = None
    /\ pulled_early' = FALSE
    /\ NoteEmitted(Ok(None), "")
    /\ UNCHANGED <<ts_vars, obj, env, dec_vars, peeked_packet, pes_packets, eos,
                   ignore_packet_header_length, pc, ts_n>>

\* ReadPesPacket::reset
Reset ==
    /\ obj = "reader"
    /\ pc = "idle"
    /\ LET r == reset(is_marked, peeked_packet) IN
       /\ res' = r.ret
       /\ is_marked' = r.is_marked
       /\ peeked_packet' = r.peeked_packet
       /\ IF r.ret.ok
          THEN /\ pending' = since_mark
               /\ since_mark' = <<>>
               /\ cycle' = IF cycle = "marked" THEN "replay" ELSE "off"
               /\ held_at_mark' = <<>>
          ELSE /\ cycle' = "off"
               /\ UNCHANGED <<since_mark, pending, held_at_mark>>
    /\ source' = ""
    /\ expected' = None
    /\ op' = "reset"
    /\ arg' = None
    /\ pulled_early' = FALSE
    /\ NoteEmitted(Ok(None), "")
    /\ UNCHANGED <<ts_vars, obj, env, dec_vars, pes_packets, eos, back_buffer,
                   ignore_packet_header_length, pc, ts_n>>

\* read_pes_packet, peek_pes_packet and read_next_pes_packet as functions of
\* the reader's fields r and of what its packet source has left to give,
\* input: a sequence of TS packets and errors, the end of the stream after
\* them.  They return the call's result, the fields and the input left.

\* A read_ts_packet() of the packet source that fails.
SourceError ==
    [pid |-> 0, payload |-> "Error", pes_packet_len |-> 0, header |-> NoHeader,
     data |-> <<>>]

\* The key handle_eos finds first: the HashMap's order, taken to be that of
\* the PIDs.
FirstKey(map) ==
    IF DOMAIN map = {} THEN 0
    ELSE CHOOSE k \in DOMAIN map : \A j \in DOMAIN map : k <= j

RECURSIVE read_next_pes_packet(_, _)
read_next_pes_packet(r, input) ==
    IF r.eos \/ input = <<>>
    THEN LET e == Rdr_handle_eos(r.map, FirstKey(r.map)) IN
         [ret |-> e.ret, rdr |-> [r EXCEPT !.map = e.map, !.eos = TRUE],
          input |-> input]
    ELSE IF Head(input).payload = "Error"
    THEN [ret |-> Err("Io"), rdr |-> r, input |-> Tail(input)]
    ELSE LET d == Rdr_dispatch(r.map, r.ignore, Head(input))
             r2 == [r EXCEPT !.map = d.map]
         IN IF ~d.ret.ok \/ IsSome(d.ret)
            THEN [ret |-> d.ret, rdr |-> r2, input |-> Tail(input)]
            ELSE read_next_pes_packet(r2, Tail(input))

read_pes_packet(r, input) ==
    LET t == TakeBuffered(r.peeked, r.buffer, r.marked)
        n == read_next_pes_packet(r, input)
        ret == IF t.taken THEN Ok(t.packet) ELSE n.ret
        r1 == IF t.taken
              THEN [r EXCEPT !.peeked = t.peeked, !.buffer = t.buffer]
              ELSE n.rdr
    IN [ret |-> ret,
        rdr |-> [r1 EXCEPT !.buffer = PushIfMarked(@, r.marked, ret)],
        input |-> IF t.taken THEN input ELSE n.input]

peek_pes_packet(r, input) ==
    IF r.peeked # None
    THEN [ret |-> r.peeked, rdr |-> r, input |-> input]
    ELSE LET x == read_pes_packet(r, input) IN
         [ret |-> unwrap_or_none(x.ret),
          rdr |-> [x.rdr EXCEPT !.peeked = unwrap_or_none(x.ret)],
          input |-> x.input]

\* ---------------------------------------------------------- specification

\* PesPacketDecoder::new and PesPacketReader::new
\* ---------------------------------------------------------- TsPacketReader

\* TsPacket::SIZE
SIZE == 188

\* TsPacket::SYNC_BYTE
SYNC_BYTE == 71

\* Pid::PAT
PAT == 0

\* Pid::NULL
NULL == 8191

\* The bytes a failed sync check has read from the stream: the byte peeked at
\* by read_next_packet alone, or the four bytes of the header.
SyncReads == {1, 4}

\* A 188-byte window of the stored stream.  Byte 0 is `sync`, bytes 1..3 hold
\* pusi, pid, afc and cc as the TS header lays them out, the bytes after the
\* header hold `body` (with `table` the PIDs a PAT or PMT body lists) and
\* carry no 0x47, except that when emb > 0 the four bytes at offset emb are
\* the header 47 1F FF 10 of a null packet.
Window(sync, pid, pusi, afc, body, table, emb) ==
    [sync |-> sync, pid |-> pid, pusi |-> pusi, afc |-> afc, cc |-> 0,
     body |-> body, table |-> table, emb |-> emb, cut |-> 0]

NullWindow == Window(SYNC_BYTE, NULL, FALSE, 1, "bytes", {}, 0)

ReservedWindow == Window(SYNC_BYTE, 1, FALSE, 1, "bytes", {}, 0)

AdaptationWindow == Window(SYNC_BYTE, 256, FALSE, 2, "af", {}, 0)

PatWindow(pmt_pid) == Window(SYNC_BYTE, PAT, TRUE, 1, "pat", {pmt_pid}, 0)

PmtWindow(pid, es_pid) == Window(SYNC_BYTE, pid, TRUE, 1, "pmt", {es_pid}, 0)

PesWindow(pid) == Window(SYNC_BYTE, pid, TRUE, 1, "pes", {}, 0)

RawWindow(pid) == Window(SYNC_BYTE, pid, FALSE, 1, "bytes", {}, 0)

\* Windows whose sync byte is 0x00.
CorruptWindows ==
    {[NullWindow EXCEPT !.sync = 0], [NullWindow EXCEPT !.sync = 0, !.emb = 4]}

\* The windows of the byte-level runs: well-formed ones that need no table,
\* and corrupt ones.
ByteWindows ==
    {NullWindow, ReservedWindow, AdaptationWindow} \cup CorruptWindows

\* The windows of the table runs: PATs and PMTs of any contents.
TableWindows ==
    {PatWindow(4096), PatWindow(256), PmtWindow(4096, 256), PesWindow(256),
     RawWindow(256)}

\* The window w as the last of a stream that ends early: its header and what
\* its body holds are whole, and half a window of the stuffing bytes behind
\* them is missing.
Cut(w) == [w EXCEPT !.cut = SIZE \div 2]

\* The bytes the byte source holds: whole windows, the last one less the
\* bytes it is cut by.
StreamLen(s) == IF s = <<>> THEN 0 ELSE Len(s) * SIZE - s[Len(s)].cut

\* The streams of at most MaxWindows windows, the i-th with continuity
\* counter i.
Streams(windows) ==
    {[i \in DOMAIN s |-> [s[i] EXCEPT !.cc = i]] :
        s \in UNION {[1..n -> windows] : n \in 0..MaxWindows}}

Min(a, b) == IF a < b THEN a ELSE b

\* Byte j (from 0) of a window.
ByteOf(w, j) ==
    IF j = 0 THEN w.sync
    ELSE IF j = 1 THEN (IF w.pusi THEN 64 ELSE 0) + (w.pid \div 256)
    ELSE IF j = 2 THEN w.pid % 256
    ELSE IF j = 3 THEN w.afc * 16 + w.cc
    ELSE IF w.emb > 0 /\ j \in w.emb..(w.emb + 3)
         THEN <<SYNC_BYTE, 31, 255, 16>>[j - w.emb + 1]
         ELSE 255

\* Byte p (from 0) of a stream.
StreamByte(s, p) == ByteOf(s[(p \div SIZE) + 1], p % SIZE)

\* What follows a header read at p: the body of the window when the header
\* is the window's own, filler bytes otherwise.
Content(s, p) ==
    IF p % SIZE = 0
    THEN [body |-> s[(p \div SIZE) + 1].body,
          table |-> s[(p \div SIZE) + 1].table]
    ELSE [body |-> "bytes", table |-> {}]

\* TsHeader::read_from on the bytes at p, `avail` of them left in the stream;
\* `reads` is what a failed call has consumed.
TsHeader_read_from(s, p, avail, sync_fail_reads) ==
    IF StreamByte(s, p) # SYNC_BYTE
    THEN [ok |-> FALSE, reads |-> Min(sync_fail_reads, avail)]
    ELSE IF avail < 4
         THEN [ok |-> FALSE, reads |-> avail]
         ELSE [ok |-> TRUE,
               pusi |-> (StreamByte(s, p + 1) \div 64) % 2 = 1,
               pid |-> (StreamByte(s, p + 1) % 32) * 256 + StreamByte(s, p + 2),
               afc |-> (StreamByte(s, p + 3) \div 16) % 4,
               cc |-> StreamByte(s, p + 3) % 16]

has_adaptation_field(afc) == afc \in {2, 3}

has_payload(afc) == afc \in {1, 3}

\* Pat::read_from, Pmt::read_from, Pes::read_from and
\* AdaptationField::read_from accept the body of their kind; Bytes::read_from
\* and Null::read_from accept any bytes up to the end of the window.
Accepts(parser, content) == parser = "bytes" \/ content.body = parser

InsertAll(pids_map, keys, kind) ==
    [q \in DOMAIN pids_map \cup keys |->
        IF q \in keys THEN kind ELSE pids_map[q]]

\* The match on header.pid with a PID missing from the table read like one
\* the table maps to Pes.
Payload_unannounced_pes(h, content, pids_map) ==
    LET parser ==
            IF h.pid = PAT THEN "pat"
            ELSE IF h.pid = NULL THEN "bytes"
            ELSE IF h.pid \in (1..31) \cup {8187} THEN "bytes"
            ELSE IF h.pid \in DOMAIN pids_map /\ pids_map[h.pid] = "Pmt"
                 THEN "pmt"
                 ELSE IF h.pusi THEN "pes" ELSE "bytes"
        kind ==
            IF h.pid = PAT THEN "Pat"
            ELSE IF h.pid = NULL THEN "Null"
            ELSE IF h.pid \in (1..31) \cup {8187} THEN "Raw"
            ELSE IF h.pid \in DOMAIN pids_map /\ pids_map[h.pid] = "Pmt"
                 THEN "Pmt"
                 ELSE IF h.pusi THEN "Pes" ELSE "Raw"
    IN IF ~Accepts(parser, content)
       THEN [ok |-> FALSE, pids |-> pids_map]
       ELSE [ok |-> TRUE,
             payload |-> Some([kind |-> kind, table |-> content.table]),
             pids |-> IF kind = "Pat"
                      THEN InsertAll(pids_map, content.table, "Pmt")
                      ELSE IF kind = "Pmt"
                           THEN InsertAll(pids_map, content.table, "Pes")
                           ELSE pids_map]

\* The match on header.pid of read_next_packet.
Payload(h, content, pids_map) ==
    LET parser ==
            IF h.pid = PAT THEN "pat"
            ELSE IF h.pid = NULL THEN "bytes"
            ELSE IF h.pid \in (1..31) \cup {8187} THEN "bytes"
            ELSE IF h.pid \notin DOMAIN pids_map THEN "bytes"
            ELSE IF pids_map[h.pid] = "Pmt" THEN "pmt"
            ELSE IF h.pusi THEN "pes" ELSE "bytes"
        kind ==
            IF h.pid = PAT THEN "Pat"
            ELSE IF h.pid = NULL THEN "Null"
            ELSE IF h.pid \in (1..31) \cup {8187} THEN "Raw"
            ELSE IF h.pid \notin DOMAIN pids_map THEN "Null"
            ELSE IF pids_map[h.pid] = "Pmt" THEN "Pmt"
            ELSE IF h.pusi THEN "Pes" ELSE "Raw"
    IN IF ~Accepts(parser, content)
       THEN [ok |-> FALSE, pids |-> pids_map]
       ELSE [ok |-> TRUE,
             payload |-> Some([kind |-> kind, table |-> content.table]),
             pids |-> IF kind = "Pat"
                      THEN InsertAll(pids_map, content.table, "Pmt")
                      ELSE IF kind = "Pmt"
                           THEN InsertAll(pids_map, content.table, "Pes")
                           ELSE pids_map]

\* read_next_packet at byte p of the stream; `io` when the byte source fails
\* its first read.  A parser that rejects what follows the header has read
\* one byte of it.
read_next_packet(s, p, pids_map, sync_fail_reads, io) ==
    LET avail == StreamLen(s) - p IN
    IF io THEN [ret |-> Err("Io"), pos |-> p, pids |-> pids_map]
    ELSE IF avail = 0 THEN [ret |-> Ok(None), pos |-> p, pids |-> pids_map]
    ELSE
    LET h == TsHeader_read_from(s, p, avail, sync_fail_reads) IN
    IF ~h.ok
    THEN [ret |-> Err("InvalidInput"), pos |-> p + h.reads, pids |-> pids_map]
    ELSE
    LET content == Content(s, p) IN
    IF has_adaptation_field(h.afc) /\ ~Accepts("af", content)
    THEN [ret |-> Err("InvalidInput"), pos |-> p + 5, pids |-> pids_map]
    ELSE
    LET pl == IF has_payload(h.afc)
              THEN Payload(h, content, pids_map)
              ELSE [ok |-> TRUE, payload |-> None, pids |-> pids_map]
    IN
    IF ~pl.ok
    THEN [ret |-> Err("InvalidInput"), pos |-> p + 5, pids |-> pl.pids]
    ELSE IF avail < SIZE
         THEN [ret |-> Err("InvalidInput"), pos |-> p + avail, pids |-> pl.pids]
         ELSE [ret |-> Ok(Some([header |-> [pid |-> h.pid, cc |-> h.cc],
                                adaptation_field |-> has_adaptation_field(h.afc),
                                payload |-> pl.payload])),
               pos |-> p + SIZE, pids |-> pl.pids]

\* The offsets of the 0x47 bytes of each window.
SyncOffsets ==
    [w \in {[t EXCEPT !.cc = i] :
                t \in ByteWindows \cup TableWindows
                        \cup {Cut(w) : w \in TableWindows},
                i \in 0..MaxWindows} |->
        {j \in 0..(SIZE - 1) : ByteOf(w, j) = SYNC_BYTE}]

\* Where the iterations of get_next_available_packet that fail at the sync
\* byte leave the stream: they start at p and advance by what a failed sync
\* check reads, up to the first 0x47 they meet or the end of the stream.
SkipToSync(s, p, sync_fail_reads) ==
    LET end == StreamLen(s)
        met == {q \in UNION {{(i - 1) * SIZE + j : j \in SyncOffsets[s[i]]} :
                                i \in DOMAIN s} :
                    q >= p /\ q < end /\ (q - p) % sync_fail_reads = 0}
    IN IF met = {} THEN IF p < end THEN end ELSE p
       ELSE CHOOSE q \in met : \A q2 \in met : q <= q2

RECURSIVE get_next_available_packet(_, _, _, _, _)
\* get_next_available_packet, the byte source failing the first read of its
\* first `io_errors` iterations.
get_next_available_packet(s, p, pids_map, sync_fail_reads, io_errors) ==
    LET r == read_next_packet(s, p, pids_map, sync_fail_reads, io_errors > 0) IN
    IF r.ret.ok
    THEN [next_packet |-> r.ret.v, pos |-> r.pos, pids |-> r.pids]
    ELSE get_next_available_packet(s, SkipToSync(s, r.pos, sync_fail_reads),
                                   r.pids, sync_fail_reads,
                                   IF io_errors > 0 THEN io_errors - 1 ELSE 0)

\* read_ts_packet without `self.peeked_packet = None`.
read_ts_packet_keeps_peek(peeked, next) ==
    IF peeked # None
    THEN [ret |-> Ok(peeked), peeked_packet |-> peeked, pulled |-> FALSE]
    ELSE [ret |-> Ok(next), peeked_packet |-> None, pulled |-> TRUE]

\* ReadTsPacket::read_ts_packet, `next` being what get_next_available_packet
\* returns if called.
read_ts_packet(peeked, next) ==
    IF peeked # None
    THEN [ret |-> Ok(peeked), peeked_packet |-> None, pulled |-> FALSE]
    ELSE [ret |-> Ok(next), peeked_packet |-> None, pulled |-> TRUE]

\* The Option<&TsPacket> that peek_ts_packet returns: a borrow of the slot.
AsRef(slot) == [ref |-> slot]

\* ReadTsPacket::peek_ts_packet
peek_ts_packet(peeked, next) ==
    IF peeked = None
    THEN [ret |-> AsRef(next), peeked_packet |-> next, pulled |-> TRUE]
    ELSE [ret |-> AsRef(peeked), peeked_packet |-> peeked, pulled |-> FALSE]

\* The history `announced` once get_next_available_packet has handed out
\* `next`: the program_map_pids of the PATs and the elementary_pids of the
\* PMTs handed out so far.
Announce(ann, next) ==
    IF next = None \/ next[1].payload = None
    THEN ann
    ELSE LET payload == next[1].payload[1] IN
         IF payload.kind = "Pat" THEN [ann EXCEPT !.pmt = @ \cup payload.table]
         ELSE IF payload.kind = "Pmt"
              THEN [ann EXCEPT !.es = @ \cup payload.table]
              ELSE ann

\* A call of the reader that may run get_next_available_packet.
TsCall(name) ==
    \E io_errors \in 0..MaxIoErrors :
        LET g == get_next_available_packet(stream, pos, pids, sync_reads,
                                           io_errors)
            r == IF name = "read_ts_packet"
                 THEN read_ts_packet(ts_peeked_packet, g.next_packet)
                 ELSE peek_ts_packet(ts_peeked_packet, g.next_packet)
        IN /\ ts_op' = name
           /\ ts_res' = r.ret
           /\ ts_peeked_packet' = r.peeked_packet
           /\ pos' = IF r.pulled THEN g.pos ELSE pos
           /\ pids' = IF r.pulled THEN g.pids ELSE pids
           /\ io_in_call' = (r.pulled /\ io_errors > 0)
           /\ announced' = IF r.pulled THEN Announce(announced, g.next_packet)
                            ELSE announced
           /\ ts_peek_hit' = (ts_peek_hit \/ (name = "read_ts_packet" /\ ~r.pulled))
           /\ IF name = "read_ts_packet"
              THEN /\ ts_reads' = ts_reads + 1
                   /\ ts_out' = IF r.ret.v # None
                                THEN Append(ts_out, r.ret.v[1].header)
                                ELSE ts_out
              ELSE UNCHANGED <<ts_reads, ts_out>>

ReadTsPacket ==
    /\ obj = "ts"
    /\ ts_reads < Len(stream) + 2
    /\ TsCall("read_ts_packet")
    /\ UNCHANGED <<pes_all, stream, sync_reads, source_broken, ts_pc, ts_tries>>

PeekTsPacket ==
    /\ obj = "ts"
    /\ TsCall("peek_ts_packet")
    /\ UNCHANGED <<pes_all, stream, sync_reads, source_broken, ts_pc, ts_tries>>

\* The calls of the reader, one step for each iteration of the loop of
\* get_next_available_packet.

\* The return of the call `name`: served by the peek slot, or given `next` by
\* the loop, which has left the stream at p and the table as pids_map.
TsReturn(name, next, p, pids_map) ==
    LET r == IF name = "read_ts_packet"
             THEN read_ts_packet(ts_peeked_packet, next)
             ELSE peek_ts_packet(ts_peeked_packet, next)
    IN /\ ts_pc' = "idle"
       /\ ts_tries' = 0
       /\ ts_op' = name
       /\ ts_res' = r.ret
       /\ ts_peeked_packet' = r.peeked_packet
       /\ pos' = IF r.pulled THEN p ELSE pos
       /\ pids' = IF r.pulled THEN pids_map ELSE pids
       /\ announced' = IF r.pulled THEN Announce(announced, next) ELSE announced
       /\ io_in_call' = FALSE
       /\ ts_peek_hit' = (ts_peek_hit \/ (name = "read_ts_packet" /\ ~r.pulled))
       /\ IF name = "read_ts_packet"
          THEN /\ ts_reads' = ts_reads + 1
               /\ ts_out' = IF r.ret.v # None
                            THEN Append(ts_out, r.ret.v[1].header)
                            ELSE ts_out
          ELSE UNCHANGED <<ts_reads, ts_out>>

\* read_ts_packet or peek_ts_packet up to the loop: the peek slot serves the
\* call, or the call enters get_next_available_packet.
TsBegin(name) ==
    /\ ts_pc = "idle"
    /\ IF ts_peeked_packet # None
       THEN TsReturn(name, None, pos, pids)
       ELSE /\ ts_pc' = name
            /\ UNCHANGED <<pos, pids, ts_peeked_packet, ts_op, ts_res, ts_out,
                           ts_reads, ts_peek_hit, io_in_call, announced,
                           ts_tries>>
    /\ UNCHANGED <<pes_all, stream, sync_reads, source_broken>>

BeginReadTsPacket ==
    /\ obj = "ts"
    /\ ts_reads < Len(stream) + 2
    /\ TsBegin("read_ts_packet")

BeginPeekTsPacket ==
    /\ obj = "ts"
    /\ TsBegin("peek_ts_packet")

\* One iteration of the loop of get_next_available_packet: Ok ends the loop,
\* Err is logged and the loop goes on.
NextAttempt ==
    /\ obj = "ts"
    /\ ts_pc # "idle"
    /\ LET r == read_next_packet(stream, pos, pids, sync_reads, source_broken)
       IN IF r.ret.ok
          THEN TsReturn(ts_pc, r.ret.v, r.pos, r.pids)
          ELSE /\ pos' = r.pos
               /\ pids' = r.pids
               /\ ts_tries' = (ts_tries + 1) % 2
               /\ UNCHANGED <<ts_peeked_packet, ts_op, ts_res, ts_out,
                              ts_reads, ts_peek_hit, io_in_call, announced,
                              ts_pc>>
    /\ UNCHANGED <<pes_all, stream, sync_reads, source_broken>>

\* PesPacketDecoder::new and PesPacketReader::new
PesNew ==
    /\ ts_n = 0
    /\ op = "new"
    /\ arg = None
    /\ res = Ok(None)
    /\ dec_pes_packets = EmptyMap
    /\ dec_ignore = ignore_header_length(env)
    /\ dec_eos = FALSE
    /\ peeked_packet = None
    /\ pes_packets = EmptyMap
    /\ eos = FALSE
    /\ is_marked = FALSE
    /\ back_buffer = <<>>
    /\ ignore_packet_header_length = ignore_header_length(env)
    /\ pc = "idle"
    /\ emitted = None
    /\ how = ""
    /\ source = ""
    /\ since_mark = <<>>
    /\ pending = <<>>
    /\ expected = None
    /\ pulled_early = FALSE
    /\ cycle = "off"
    /\ held_at_mark = <<>>

\* TsPacketReader::new on a byte source holding the stream s
TsNew(s) ==
    /\ stream = s
    /\ pos = 0
    /\ pids = EmptyMap
    /\ ts_peeked_packet = None
    /\ ts_op = "new"
    /\ ts_res = Ok(None)
    /\ ts_out = <<>>
    /\ ts_reads = 0
    /\ ts_peek_hit = FALSE
    /\ io_in_call = FALSE
    /\ announced = [pmt |-> {}, es |-> {}]
    /\ ts_pc = "idle"
    /\ ts_tries = 0

Init ==
    /\ obj \in Objects
    /\ env \in EnvValues
    /\ PesNew
    /\ sync_reads = 1
    /\ source_broken = FALSE
    /\ TsNew(<<>>)

InitTs ==
    /\ obj = "ts"
    /\ env = "unset"
    /\ PesNew
    /\ sync_reads \in SyncReads
    /\ source_broken = FALSE
    /\ \E s \in Streams(ByteWindows) : TsNew(s)

InitPids ==
    /\ obj = "ts"
    /\ env = "unset"
    /\ PesNew
    /\ sync_reads \in SyncReads
    /\ source_broken = FALSE
    /\ \E s \in Streams(TableWindows) : TsNew(s)

\* TsPacketReader::new on a byte source that ends inside its last window.
InitCut ==
    /\ obj = "ts"
    /\ env = "unset"
    /\ PesNew
    /\ sync_reads \in SyncReads
    /\ source_broken = FALSE
    /\ \E s \in Streams(TableWindows) \ {<<>>} :
         TsNew([s EXCEPT ![Len(s)] = Cut(@)])

\* The windows of the runs that follow the loop: null packets and windows
\* whose sync byte is 0x00.
LoopWindows == {NullWindow} \cup CorruptWindows

\* TsPacketReader::new on a byte source that works or fails on every read.
InitLoop ==
    /\ obj = "ts"
    /\ env = "unset"
    /\ PesNew
    /\ sync_reads \in SyncReads
    /\ source_broken \in BOOLEAN
    /\ \E s \in Streams(LoopWindows) : TsNew(s)

DecNext ==
    \/ ProcessTsPacket
    \/ Flush

RdrNext ==
    \/ ReadPesPacket
    \/ PeekPesPacket
    \/ PullTsPacket
    \/ PullEndOfStream
    \/ PullError
    \/ Mark
    \/ Reset

Next == DecNext \/ RdrNext

TsNext ==
    \/ ReadTsPacket
    \/ PeekTsPacket

Spec == Init /\ [][Next]_vars

SpecTs == InitTs /\ [][TsNext]_vars

SpecPids == InitPids /\ [][TsNext]_vars

SpecCut == InitCut /\ [][TsNext]_vars

LoopNext ==
    \/ BeginReadTsPacket
    \/ BeginPeekTsPacket
    \/ NextAttempt

\* The thread that runs the loop is never blocked: the next iteration is
\* always taken.
SpecLoop == InitLoop /\ [][LoopNext]_vars /\ WF_loop_vars(NextAttempt)

\* ------------------------------------------------------------------ claims

\* The packet a call of the PES layer returned, as an Option.
Returned ==
    IF op \in {"process_ts_packet", "flush", "read_pes_packet"} /\ IsSome(res)
    THEN res.v ELSE None

IgnoreFlag == IF obj = "decoder" THEN dec_ignore ELSE ignore_packet_header_length

\* A packet whose Pes payload declared a bounded length, and that length.
Bounded(p) == ~IgnoreFlag /\ p.header.declared # 0

DeclaredBody(p) == p.header.declared - p.header.optional_header_len

\* C1, as claimed: a read that follows a reset() returns the next of the
\* packets read between mark() and that reset(), in their order, and the
\* packet source is not read while one of them is still to be returned.
C1_ReplayAfterReset ==
    /\ expected # None => (res.ok /\ res.v = expected)
    /\ ~pulled_early

\* C2, as claimed: every packet returned by process_ts_packet, flush or
\* read_pes_packet whose Pes payload declared a bounded length has a body of
\* exactly pes_packet_len - optional_header_len bytes.
C2_EveryReturnedComplete ==
    Returned # None /\ Bounded(Returned[1])
        => Len(Returned[1].data) = DeclaredBody(Returned[1])

\* C2, amended: every packet of a bounded declared length that leaves the
\* in-flight map through a Raw append or at end of stream has a body of
\* exactly pes_packet_len - optional_header_len bytes (a packet evicted by the
\* next Pes payload on its PID leaves with the body it has).
C2_CompleteUnlessEvicted ==
    emitted # None /\ how \in {"raw", "eos"} /\ Bounded(emitted[1])
        => /\ Len(emitted[1].data) = DeclaredBody(emitted[1])
           /\ op \in {"process_ts_packet", "flush", "read_pes_packet"}
                  => Returned = emitted

\* A read_pes_packet returns a packet of a bounded length that a Raw payload
\* completed.
C2_Witness ==
    /\ op = "read_pes_packet"
    /\ Returned # None
    /\ how = "raw"
    /\ Bounded(Returned[1])
    /\ Len(Returned[1].data) = 3

\* C3, as claimed: an in-flight partial with data_len = Some(len) never holds
\* more than len bytes.
C3_PartialWithinDeclared ==
    \A p \in DOMAIN dec_pes_packets :
        dec_pes_packets[p].data_len # None
            => Len(dec_pes_packets[p].packet.data)
                   <= dec_pes_packets[p].data_len[1]

\* C8: mark() on a marked reader and reset() on an unmarked one fail with
\* ErrorKind::Other and leave is_marked, the peek slot and the back-buffer as
\* they were; mark() on an unmarked reader and reset() on a marked one succeed.
C8_MarkResetErrors ==
    [][ /\ (pc = "idle" /\ pc' = "idle" /\ op' = "mark")
            => IF is_marked
               THEN /\ res' = Err("Other")
                    /\ UNCHANGED <<is_marked, peeked_packet, back_buffer>>
               ELSE res'.ok /\ is_marked'
        /\ (pc = "idle" /\ pc' = "idle" /\ op' = "reset")
            => IF ~is_marked
               THEN /\ res' = Err("Other")
                    /\ UNCHANGED <<is_marked, peeked_packet, back_buffer>>
               ELSE res'.ok /\ ~is_marked' ]_vars

\* A mark() has failed on a reader whose peek slot and back-buffer are filled.
C8_Witness ==
    /\ op = "mark"
    /\ ~res.ok
    /\ is_marked
    /\ peeked_packet # None
    /\ Len(back_buffer) >= 2

\* C9: in a cycle mark(); reads; reset(); reads that starts with an empty peek
\* slot and an empty back-buffer, the reads after reset() return the packets
\* read since mark() in their order, taken from the back-buffer without
\* reading the packet source, and every later read takes its packet from
\* read_next_pes_packet, the back-buffer being empty.
C9_CleanCycleReplays ==
    /\ cycle = "marked" => (back_buffer = since_mark /\ peeked_packet = None)
    /\ cycle = "replay" =>
        /\ ~pulled_early
        /\ back_buffer = pending
        /\ peeked_packet = None
        /\ op = "read_pes_packet" =>
            IF expected # None
            THEN res.ok /\ res.v = expected /\ source = "buffer"
            ELSE source = "next"

\* The first of at least two marked packets has been replayed.
C9_Witness ==
    /\ cycle = "replay"
    /\ op = "read_pes_packet"
    /\ expected # None
    /\ res.ok /\ res.v = expected
    /\ pending # <<>>

\* What C10 says of a step of process_ts_packet given a Pes payload.
EvictsPrior ==
    LET ts == arg'[1]
        p == ts.pid
    IN /\ res'.ok
       /\ res'.v = IF p \in DOMAIN dec_pes_packets
                   THEN Some(dec_pes_packets[p].packet) ELSE None
       /\ p \in DOMAIN dec_pes_packets'
       /\ dec_pes_packets'[p].packet = [header |-> ts.header, data |-> ts.data]
       /\ \A q \in Pids \ {p} :
            /\ q \in DOMAIN dec_pes_packets' <=> q \in DOMAIN dec_pes_packets
            /\ q \in DOMAIN dec_pes_packets
                 => dec_pes_packets'[q] = dec_pes_packets[q]

IsPesStep ==
    /\ obj = "decoder"
    /\ ts_n' = ts_n + 1
    /\ op' = "process_ts_packet"
    /\ arg'[1].payload = "Pes"

\* C10, as claimed: process_ts_packet with a Pes payload on PID p returns
\* None when p has no in-flight partial and the prior in-flight packet of p
\* otherwise, the new Pes becomes p's partial and the other PIDs' partials
\* are untouched.
C10_PesEvictsPrior == [][ IsPesStep => EvictsPrior ]_vars

\* C10, amended: the same, on a decoder that has not been flushed and for a
\* Pes payload whose length is accepted (the ignore flag is on,
\* pes_packet_len = 0 or pes_packet_len >= optional_header_len).
C10_AcceptedPesEvictsPrior ==
    [][ ( /\ IsPesStep
          /\ ~dec_eos
          /\ \/ dec_ignore
             \/ arg'[1].pes_packet_len = 0
             \/ arg'[1].pes_packet_len >= arg'[1].header.optional_header_len )
        => EvictsPrior ]_vars

\* A Pes payload has evicted a packet whose declared length was not met, the
\* other PID's partial being in flight.
C10_Witness ==
    /\ op = "process_ts_packet"
    /\ how = "evict"
    /\ Returned # None
    /\ Bounded(Returned[1])
    /\ Len(Returned[1].data) < DeclaredBody(Returned[1])
    /\ DOMAIN dec_pes_packets = Pids

WellFormed(w) == w.sync = SYNC_BYTE

Headers(s) == [i \in DOMAIN s |-> [pid |-> s[i].pid, cc |-> s[i].cc]]

\* The calls of read_ts_packet so far have returned the packets of `want` in
\* order, and None from the call after the last of them on.
YieldsInOrder(want) ==
    /\ ts_out = SubSeq(want, 1, Min(ts_reads, Len(want)))
    /\ ts_op = "read_ts_packet"
         => ts_res.ok /\ (ts_res.v = None <=> ts_reads > Len(want))

\* C4, as claimed: a PID that the pids table maps to Pes is not mapped to Pmt
\* by any later packet.
C4_PesNeverBecomesPmt ==
    [][ \A p \in DOMAIN pids : pids[p] = "Pes" => pids'[p] # "Pmt" ]_vars

\* C5, as claimed: on a stream of well-formed windows and windows whose sync
\* byte is not 0x47, read_ts_packet yields exactly the well-formed windows'
\* packets, in order, and then None.
C5_SkipsCorruptWindows == YieldsInOrder(Headers(SelectSeq(stream, WellFormed)))

\* C6: on a stream of N well-formed windows, the calls of read_ts_packet
\* return the N packets in input order and None from call N+1 on, and a
\* peek_ts_packet in between shows the packet the next read returns (None at
\* the end) without changing what the reads return.
C6_ValidStreamYieldsAll ==
    (\A i \in DOMAIN stream : WellFormed(stream[i])) =>
        /\ YieldsInOrder(Headers(stream))
        /\ ts_op = "peek_ts_packet" =>
             /\ ts_res = AsRef(ts_peeked_packet)
             /\ IF ts_reads < Len(stream)
                THEN /\ ts_res.ref # None
                     /\ ts_res.ref[1].header = Headers(stream)[ts_reads + 1]
                ELSE ts_res.ref = None

\* N+1 reads of a stream of N >= 2 well-formed windows, one of them served
\* from the peek slot, have ended with None.
C6_Witness ==
    /\ obj = "ts"
    /\ Len(stream) >= 2
    /\ \A i \in DOMAIN stream : WellFormed(stream[i])
    /\ ts_reads = Len(stream) + 1
    /\ ts_op = "read_ts_packet"
    /\ ts_res = Ok(None)
    /\ ts_peek_hit

\* C7, as claimed: a read_ts_packet during which the byte source returned an
\* I/O error returns an Err.
C7_IoErrorPropagates ==
    (ts_op = "read_ts_packet" /\ io_in_call) => ~ts_res.ok

IsFlushStep == obj = "decoder" /\ op' = "flush"

\* A partial's body is what handle_eos accepts: unbounded, or of the length
\* declared.
Complete(partial) ==
    partial.data_len = None \/ partial.data_len = Some(Len(partial.packet.data))

\* A flush() hands out one in-flight partial, as Ok(Some) or as an error, and
\* takes it out of the map; on an empty map it returns Ok(None).
DrainsOne ==
    /\ dec_eos'
    /\ IF DOMAIN dec_pes_packets = {}
       THEN res'.ok /\ res'.v = None /\ dec_pes_packets' = dec_pes_packets
       ELSE \E k \in DOMAIN dec_pes_packets :
              /\ dec_pes_packets' = MapRemove(dec_pes_packets, k)
              /\ res'.ok => res'.v = Some(dec_pes_packets[k].packet)

\* The flush() is the first one, and follows a single accepted Pes payload.
AfterSinglePes ==
    /\ ~dec_eos
    /\ ts_n = 1
    /\ op = "process_ts_packet"
    /\ arg[1].payload = "Pes"
    /\ res.ok

\* C11, as claimed: every flush() hands out one in-flight partial (Ok(Some) or
\* an error) and removes it, a flush() on an empty map returns Ok(None), and
\* the flush() right after a single Pes payload returns Some.
C11_FlushDrains ==
    [][ IsFlushStep =>
          /\ DrainsOne
          /\ AfterSinglePes => (res'.ok /\ res'.v # None) ]_vars

\* C11, amended: every flush() hands out one in-flight partial (Ok(Some) or an
\* error) and removes it, a flush() on an empty map returns Ok(None), and the
\* flush() right after a single Pes payload returns Some when that Pes is
\* unbounded or already holds its declared length, and InvalidInput otherwise.
C11_FlushDrainsOrFails ==
    [][ IsFlushStep =>
          /\ DrainsOne
          /\ AfterSinglePes =>
               \E k \in DOMAIN dec_pes_packets :
                  IF Complete(dec_pes_packets[k])
                  THEN res'.ok /\ res'.v = Some(dec_pes_packets[k].packet)
                  ELSE res' = Err("InvalidInput") ]_vars

\* After two TS packets or more, a flush() has handed out the last in-flight
\* partial and left the map empty.
C11_Witness ==
    /\ op = "flush"
    /\ IsSome(res)
    /\ how = "eos"
    /\ dec_pes_packets = EmptyMap
    /\ ts_n >= 2
    /\ arg = None

\* What C12 says of a handle_eos that takes the partial `partial` out of a
\* map and returns ret (ok, with the packet given as `given`).
EosResult(partial, ok, given) ==
    /\ Complete(partial) => (ok /\ given = Some(partial.packet))
    /\ ~ok => /\ partial.data_len # None
              /\ Len(partial.packet.data) < partial.data_len[1]

\* C12, as claimed: at end of stream, draining an in-flight partial gives
\* InvalidInput only if the partial is bounded and shorter than declared; an
\* unbounded partial or one of exactly the declared length is returned.
C12_UnexpectedEosOnlyIfShort ==
    [][ /\ (obj = "decoder" /\ dec_eos') =>
             \A k \in DOMAIN dec_pes_packets \ DOMAIN dec_pes_packets' :
                EosResult(dec_pes_packets[k], res'.ok,
                          IF res'.ok THEN res'.v ELSE None)
        /\ (obj = "reader" /\ eos') =>
             \A k \in DOMAIN pes_packets \ DOMAIN pes_packets' :
                EosResult(pes_packets[k], emitted' # None, emitted') ]_vars

\* The step hands the Raw payload arg' to handle_raw_payload of the decoder
\* (not flushed) or of the reader, PID arg'[1].pid having a bounded partial
\* in `map`.
IsRawStepOn(map) ==
    /\ ts_n' = ts_n + 1
    /\ arg'[1].payload = "Raw"
    /\ arg'[1].pid \in DOMAIN map
    /\ map[arg'[1].pid].data_len # None

Appended(map) ==
    [map[arg'[1].pid] EXCEPT !.packet.data = @ \o arg'[1].data]

DropsOverlong(map, map2, given) ==
    LET p == arg'[1].pid
        partial == Appended(map)
    IN Len(partial.packet.data) > partial.data_len[1] =>
         /\ given = None
         /\ map2 = MapRemove(map, p)
         /\ \A q \in DOMAIN map2 :
              map2[q].packet.header.id # partial.packet.header.id

\* C14, as claimed: a Raw payload whose append would make a bounded partial
\* longer than declared returns None and removes the partial, which is never
\* emitted afterwards; and no emitted packet of a bounded declared length
\* holds more bytes than declared.
C14_NoBytesPastDeclared ==
    [][ /\ (obj = "decoder" /\ ~dec_eos /\ IsRawStepOn(dec_pes_packets)) =>
            /\ res'.ok
            /\ DropsOverlong(dec_pes_packets, dec_pes_packets', res'.v)
        /\ (obj = "reader" /\ IsRawStepOn(pes_packets)) =>
            DropsOverlong(pes_packets, pes_packets', emitted')
        /\ (emitted' # None /\ Bounded(emitted'[1])) =>
            Len(emitted'[1].data) <= DeclaredBody(emitted'[1]) ]_vars

\* C15: the flag is on exactly when TS_IGNORE_HEADER_LENGTH is "true" in some
\* letter case at construction; with the flag on every in-flight partial has
\* data_len = None, a Raw append emits nothing (a packet leaves the map only
\* by eviction or at end of stream), and process_ts_packet and flush never
\* return an error.
C15_IgnoreHeaderLength ==
    /\ dec_ignore = (env \in {"true", "TRUE", "True"})
    /\ ignore_packet_header_length = dec_ignore
    /\ dec_ignore =>
         /\ \A p \in DOMAIN dec_pes_packets : dec_pes_packets[p].data_len = None
         /\ \A p \in DOMAIN pes_packets : pes_packets[p].data_len = None
         /\ how # "raw"
         /\ emitted # None => how \in {"evict", "eos"}
         /\ op \in {"process_ts_packet", "flush"} => res.ok

\* With the flag on, a Raw payload has brought a packet to the length its Pes
\* payload declared, or past it, and nothing was emitted.
C15_Witness ==
    /\ obj = "decoder"
    /\ env = "TRUE"
    /\ op = "process_ts_packet"
    /\ arg # None
    /\ arg[1].payload = "Raw"
    /\ res = Ok(None)
    /\ arg[1].pid \in DOMAIN dec_pes_packets
    /\ LET packet == dec_pes_packets[arg[1].pid].packet
       IN /\ packet.header.declared # 0
          /\ Len(packet.data)
               >= packet.header.declared - packet.header.optional_header_len

\* The step is a read_pes_packet that returns from read_next_pes_packet with
\* the TS reader at its end (the slot and the back-buffer gave nothing).
IsEosRead ==
    /\ obj = "reader"
    /\ eos'
    /\ op' = "read_pes_packet"
    /\ source' = "next"

\* A read_pes_packet returns Ok(None) only with the TS reader at its end and
\* no partial in flight.
NoneOnlyWhenDrained ==
    (op' = "read_pes_packet" /\ res'.ok /\ res'.v = None) =>
        (eos' /\ pes_packets' = EmptyMap)

\* C16, as claimed: once the TS reader is at its end, each read_pes_packet
\* returns one of the remaining in-flight partials and removes it, and
\* read_pes_packet returns Ok(None) only when the stream is exhausted and no
\* partial remains.
C16_EosReadsReturnPartials ==
    [][ /\ IsEosRead =>
             IF DOMAIN pes_packets = {}
             THEN res'.ok /\ res'.v = None
             ELSE \E k \in DOMAIN pes_packets :
                    /\ pes_packets' = MapRemove(pes_packets, k)
                    /\ res'.ok
                    /\ res'.v = Some(pes_packets[k].packet)
        /\ NoneOnlyWhenDrained ]_vars

\* C16, amended: once the TS reader is at its end, each read_pes_packet takes
\* one of the remaining in-flight partials out of the map; it returns the
\* partial with its whole body when the partial is unbounded or of its
\* declared length, and InvalidInput otherwise; and read_pes_packet returns
\* Ok(None) only when the stream is exhausted and no partial remains.
C16_EosReadsDrain ==
    [][ /\ IsEosRead =>
             IF DOMAIN pes_packets = {}
             THEN res'.ok /\ res'.v = None
             ELSE \E k \in DOMAIN pes_packets :
                    /\ pes_packets' = MapRemove(pes_packets, k)
                    /\ IF Complete(pes_packets[k])
                       THEN res'.ok /\ res'.v = Some(pes_packets[k].packet)
                       ELSE res' = Err("InvalidInput")
        /\ NoneOnlyWhenDrained ]_vars

\* At the end of the stream a read_pes_packet has returned an unbounded
\* packet whose body was gathered from two TS packets, and another partial
\* is still in flight.
C16_Witness ==
    /\ obj = "reader"
    /\ eos
    /\ op = "read_pes_packet"
    /\ source = "next"
    /\ how = "eos"
    /\ IsSome(res)
    /\ res.v[1].header.declared = 0
    /\ Len(res.v[1].data) >= 2
    /\ pes_packets # EmptyMap

\* The fields of the reader as it stands.
RdrFields ==
    [peeked |-> peeked_packet, buffer |-> back_buffer, marked |-> is_marked,
     map |-> pes_packets, eos |-> eos, ignore |-> ignore_packet_header_length]

\* What the packet source may still give: up to MaxAhead TS packets or
\* errors, then the end of the stream.
MaxAhead == 2

Ahead(n) == ReaderTsPackets(n) \cup {SourceError}

FutureInputs ==
    UNION { [1..k -> UNION {Ahead(ts_n + i) : i \in 1..k}] : k \in 0..MaxAhead }

\* The results of the read_pes_packet calls among `calls`, made in turn on a
\* reader with fields r; the other calls are peek_pes_packet and reset.
RECURSIVE ReadResults(_, _, _)
ReadResults(r, input, calls) ==
    IF calls = <<>> THEN <<>>
    ELSE CASE Head(calls) = "read" ->
                LET x == read_pes_packet(r, input) IN
                <<x.ret>> \o ReadResults(x.rdr, x.input, Tail(calls))
           [] Head(calls) = "peek" ->
                LET x == peek_pes_packet(r, input) IN
                ReadResults(x.rdr, x.input, Tail(calls))
           [] Head(calls) = "reset" ->
                LET x == reset(r.marked, r.peeked) IN
                ReadResults([r EXCEPT !.marked = x.is_marked,
                                      !.peeked = x.peeked_packet],
                            input, Tail(calls))

SameResults(a, b) ==
    /\ Len(a) = Len(b)
    /\ \A i \in 1..Len(a) : a[i].ok = b[i].ok /\ a[i].v = b[i].v

\* The calls that follow: a read, a reset() and two reads, or three reads.
Subsequent ==
    {<<"read", "reset", "read", "read">>, <<"read", "read", "read">>}

\* C17, as claimed: from any state of the reader between two calls, whatever
\* the packet source still gives, the read_pes_packet calls that follow, a
\* reset() among them or not, return the same results whether or not
\* peek_pes_packet is called first, and a second peek_pes_packet right after
\* a first returns the same packet.
C17_PeekNonConsuming ==
    (obj = "reader" /\ pc = "idle") =>
        \A input \in FutureInputs :
           /\ \A calls \in Subsequent :
                SameResults(ReadResults(RdrFields, input, calls),
                            ReadResults(RdrFields, input, <<"peek">> \o calls))
           /\ LET first == peek_pes_packet(RdrFields, input)
              IN peek_pes_packet(first.rdr, first.input).ret = first.ret

\* The step gives process_ts_packet, on a decoder not flushed, the packet arg'
\* that carries no payload, a Pat, Pmt or Null payload, or a Raw payload on a
\* PID that has no partial in flight.
IsIgnoredStep ==
    /\ obj = "decoder"
    /\ ~dec_eos
    /\ ts_n' = ts_n + 1
    /\ \/ arg'[1].payload \in {"NoPayload", "Pat", "Pmt", "Null"}
       \/ /\ arg'[1].payload = "Raw"
          /\ arg'[1].pid \notin DOMAIN dec_pes_packets

\* C18: process_ts_packet on a decoder that has not been flushed returns
\* Ok(None) and leaves the map of in-flight partials as it was when the packet
\* has no payload, a Pat, Pmt or Null payload, or a Raw payload on a PID
\* without a partial in flight.
C18_IgnoredPacketsChangeNothing ==
    [][ IsIgnoredStep =>
          /\ op' = "process_ts_packet"
          /\ res'.ok
          /\ res'.v = None
          /\ dec_pes_packets' = dec_pes_packets
          /\ dec_eos' = dec_eos
          /\ dec_ignore' = dec_ignore ]_vars

\* The third packet given to the decoder carried neither Pes nor Raw payload,
\* on the PID of the only partial in flight, and the partial is still there
\* with its one byte.
C18_Witness ==
    /\ obj = "decoder"
    /\ ~dec_eos
    /\ ts_n = 3
    /\ op = "process_ts_packet"
    /\ arg[1].payload \in {"NoPayload", "Pat", "Pmt", "Null"}
    /\ res = Ok(None)
    /\ DOMAIN dec_pes_packets = {arg[1].pid}
    /\ Len(dec_pes_packets[arg[1].pid].packet.data) = 1

\* The packet the step hands out for the first time, by read_ts_packet or by
\* peek_ts_packet: the call has read it from the stream.
YieldedNow ==
    IF pos' = pos THEN None
    ELSE IF ts_op' = "read_ts_packet" THEN ts_res'.v ELSE ts_res'.ref

\* The PIDs 0x01..=0x1F and 0x1FFB.
ReservedPids == (1..31) \cup {8187}

\* C19: a packet is handed out with a Pmt payload only on a PID that a PAT
\* handed out earlier has listed, and with a Pes payload, or a Raw payload
\* outside the PIDs 0x01..=0x1F and 0x1FFB, only on a PID that a PMT handed
\* out earlier has listed; a payload on a PID that no PAT or PMT handed out
\* earlier has listed is handed out as Null.
C19_DiscoveryChain ==
    [][ LET y == YieldedNow IN
        (y # None /\ y[1].payload # None) =>
           LET pid == y[1].header.pid
               kind == y[1].payload[1].kind
           IN /\ kind = "Pmt" => pid \in announced.pmt
              /\ (kind = "Pes" \/ (kind = "Raw" /\ pid \notin ReservedPids))
                    => pid \in announced.es
              /\ (/\ pid \notin announced.pmt \cup announced.es
                  /\ pid \notin {PAT} \cup ReservedPids)
                    => kind = "Null" ]_vars

\* The third read has returned a Pes payload on the PID that the PMT of the
\* second has listed, on the PID that the PAT of the first has listed.
C19_Witness ==
    /\ obj = "ts"
    /\ ts_op = "read_ts_packet"
    /\ Len(ts_out) = 3
    /\ ts_res.v # None
    /\ ts_res.v[1].payload # None
    /\ ts_res.v[1].payload[1].kind = "Pes"
    /\ ts_res.v[1].header.pid \in announced.es
    /\ announced.pmt # {}

\* What the caller of a decoder call that returned ret gets emitted.
EmittedBy(ret) == IF IsSome(ret) THEN ret.v ELSE None

\* A turn of the loop of read_next_pes_packet on the TS packet arg' does what
\* process_ts_packet of a decoder holding the reader's map does on it: the
\* same map afterwards, the same packet emitted, the loop left exactly when
\* the decoder returns a packet or an error, and that result returned.
TurnAsDecoder ==
    LET d == Dec_dispatch(pes_packets, dec_ignore, arg'[1]) IN
    /\ pes_packets' = d.map
    /\ emitted' = EmittedBy(d.ret)
    /\ (pc' = "idle") <=> (~d.ret.ok \/ IsSome(d.ret))
    /\ (pc = "read" /\ pc' = "idle") => (res'.ok = d.ret.ok /\ res'.v = d.ret.v)
    /\ eos' = FALSE

\* At the end of the stream, the reader does what flush() of that decoder
\* does: it takes out the partial some key names and returns flush's result.
EndAsDecoder ==
    \E key \in FirstKeys(pes_packets) :
        LET f == Dec_handle_eos(pes_packets, key) IN
        /\ pes_packets' = f.map
        /\ emitted' = EmittedBy(f.ret)
        /\ op' = "read_pes_packet" => (res'.ok = f.ret.ok /\ res'.v = f.ret.v)

\* C20: read_next_pes_packet does, for each TS packet its source returns,
\* what process_ts_packet of PesPacketDecoder does on the same in-flight map,
\* returning the first packet or error the decoder returns, and at the end of
\* the stream what flush() does: same packets, same errors, same map after
\* each step.
C20_ReaderAsDecoder ==
    [][ /\ (obj = "reader" /\ ts_n' = ts_n + 1) => TurnAsDecoder
        /\ (obj = "reader" /\ eos' /\ (pes_packets' # pes_packets \/ IsEosRead))
              => EndAsDecoder ]_vars

\* A read_pes_packet has returned a packet that a Pes payload evicted before
\* its declared length was met, with the partial of that Pes payload in
\* flight.
C20_Witness ==
    /\ obj = "reader"
    /\ op = "read_pes_packet"
    /\ source = "next"
    /\ how = "evict"
    /\ IsSome(res)
    /\ Bounded(res.v[1])
    /\ Len(res.v[1].data) < DeclaredBody(res.v[1])
    /\ arg # None
    /\ arg[1].pid \in DOMAIN pes_packets

\* The step gives a handle_pes_payload that reads the flag `ignore` the Pes
\* payload arg', whose pes_packet_len is neither 0 nor at least the length of
\* its optional header.
IsShortLenStep(ignore) ==
    /\ ts_n' = ts_n + 1
    /\ arg'[1].payload = "Pes"
    /\ ~ignore
    /\ arg'[1].pes_packet_len # 0
    /\ arg'[1].pes_packet_len < arg'[1].header.optional_header_len

FullInFlight(partial) == partial.data_len = Some(Len(partial.packet.data))

\* The body of the partial is the fragment its Pes payload carried: no Raw
\* payload has been appended to it.
OnlyFirstFragment(partial) ==
    \A i \in 1..Len(partial.packet.data) :
        partial.packet.data[i] = partial.packet.header.id

IsFreshReturn ==
    /\ obj = "reader"
    /\ pc' = "idle"
    /\ op' = "read_pes_packet"
    /\ source' = "next"
    /\ IsSome(res')

\* The packets of the back-buffer that wait to be replayed: all of them when
\* the reader is not marked, and those an earlier cycle left there when it is.
AwaitingReplay == IF is_marked THEN held_at_mark ELSE back_buffer

\* C23, as claimed: read_pes_packet returns a packet freshly pulled from the
\* TS stream only when no packet of the back-buffer waits to be replayed.
C23_NoFreshBeforeReplay ==
    [][ IsFreshReturn => AwaitingReplay = <<>> ]_vars

\* map2 holds no partial that map does not hold.
NothingInserted(map, map2) ==
    /\ DOMAIN map2 \subseteq DOMAIN map
    /\ \A p \in DOMAIN map2 : map2[p] = map[p]

\* The step does to `map` what flush() does: it takes out the partial some
\* key names and gives it out, or fails on it if it is bounded and not of its
\* declared length; on an empty map it gives Ok(None).
LikeFlush(map, map2, ok, v) ==
    IF DOMAIN map = {}
    THEN ok /\ v = None /\ map2 = map
    ELSE \E k \in DOMAIN map :
            /\ map2 = MapRemove(map, k)
            /\ IF Complete(map[k])
               THEN ok /\ v = Some(map[k].packet)
               ELSE ~ok /\ v = "InvalidInput"

\* C24: once flush() has been called on the decoder, or the reader has seen
\* the end of its stream, eos stays true and no partial is inserted into the
\* map, whose size never grows; a process_ts_packet of a flushed decoder does
\* what flush() does whatever the TS packet it is given, and a reader at the
\* end of its stream reads no further TS packet.
C24_EosSticky ==
    [][ /\ dec_eos =>
             /\ dec_eos'
             /\ NothingInserted(dec_pes_packets, dec_pes_packets')
             /\ ts_n' = ts_n + 1 =>
                  LikeFlush(dec_pes_packets, dec_pes_packets', res'.ok, res'.v)
        /\ eos =>
             /\ eos'
             /\ NothingInserted(pes_packets, pes_packets')
             /\ ts_n' = ts_n ]_vars

\* A flushed decoder with two partials in flight at its flush() was given a
\* Pes payload and has handed out a partial in flight since before the flush.
C24_Witness ==
    /\ obj = "decoder"
    /\ dec_eos
    /\ op = "process_ts_packet"
    /\ ts_n = 3
    /\ arg # None
    /\ arg[1].payload = "Pes"
    /\ how = "eos"
    /\ IsSome(res)
    /\ res.v[1].header.id < arg[1].header.id
    /\ dec_pes_packets = EmptyMap

\* C25, as claimed: the pids table holds only what the packets handed out to
\* the caller have put there: a PID mapped to Pmt was listed by a PAT handed
\* out, a PID mapped to Pes by a PMT handed out; a packet that is dropped
\* leaves the table as it was.
C25_PidsOnlyFromYielded ==
    \A p \in DOMAIN pids :
        IF pids[p] = "Pmt" THEN p \in announced.pmt ELSE p \in announced.es

\* C26, as claimed: every read_ts_packet or peek_ts_packet that enters the
\* loop of get_next_available_packet returns, whether the byte source holds
\* finite data or fails.
C26_CallsReturn == (ts_pc # "idle") ~> (ts_pc = "idle")

====
